---- MODULE Spec2Model ----
(***************************************************************************)
(* A model of the date_and_time crate (src/src/date_and_time/date.rs and   *)
(* time.rs): the calendar conversion functions, the Date and Time value    *)
(* types and their public operations.                                      *)
(*                                                                         *)
(* A driver holds one Date and one Time value and applies the public       *)
(* operations to them, replacing the held value by each result.  `last`    *)
(* records the most recent call (its name, arguments, the value it was     *)
(* applied to and a scalar result).  A Rust panic ends the program:        *)
(* `panicked` becomes TRUE and no further operation runs.  `build` is the  *)
(* build profile: arithmetic overflow panics in a debug build and wraps in *)
(* a release build; an out-of-range index panics in both.                  *)
(***************************************************************************)
EXTENDS Integers, Sequences, FiniteSets, TLC

VARIABLES date, time, last, steps, panicked, build

vars == <<date, time, last, steps, panicked, build>>

(***************************************************************************)
(* Rust integer semantics.  `/` and `%` on signed integers truncate        *)
(* towards zero; TLA+'s \div and % floor.  Divisors here are positive.     *)
(* Every i32/i64 value of the model lies far inside its type, so only the  *)
(* narrowing casts to u8 and the u32 arithmetic of time.rs are modelled    *)
(* with their width.                                                       *)
(***************************************************************************)
TruncDiv(a, b) == IF a >= 0 THEN a \div b ELSE -((-a) \div b)

TruncRem(a, b) == a - b * TruncDiv(a, b)

AsU8(x) == x % 256

(***************************************************************************)
(* date.rs: tables and calendar conversion.                                *)
(***************************************************************************)
LAST_DAY_OF_MONTH_LEAP == <<31, 29, 31, 30, 31, 30, 31, 31, 30, 31, 30, 31>>

LAST_DAY_OF_MONTH_COMMON == <<31, 28, 31, 30, 31, 30, 31, 31, 30, 31, 30, 31>>

MkDate(day, month, year) == [d |-> day, m |-> month, y |-> year]

InvalidDate == MkDate(0, 0, 0)

\* An ordering that compares day, then month, then year, to compare against.
Date_lt_day_first(a, b) ==
    \/ a.d < b.d
    \/ (a.d = b.d /\ a.m < b.m)
    \/ (a.d = b.d /\ a.m = b.m /\ a.y < b.y)

\* #[derive(PartialEq, PartialOrd)]: the fields are compared in the order the
\* struct declares them, y, then m, then d.
Date_lt(a, b) ==
    \/ a.y < b.y
    \/ (a.y = b.y /\ a.m < b.m)
    \/ (a.y = b.y /\ a.m = b.m /\ a.d < b.d)

Date_eq(a, b) == a.y = b.y /\ a.m = b.m /\ a.d = b.d

\* A leap-year test that knows only the rule of 4, to compare against.
is_leap_year_no_century(year) == TruncRem(year, 4) = 0

is_leap_year(year) ==
    TruncRem(year, 4) = 0 /\ (TruncRem(year, 100) # 0 \/ TruncRem(year, 400) = 0)

get_date_from_days(days) ==
    LET z    == days + 719468
        era  == IF z >= 0 THEN TruncDiv(z, 146097) ELSE TruncDiv(z - 146096, 146097)
        doe  == z - era * 146097
        yoe  == TruncDiv(doe - TruncDiv(doe, 1460) + TruncDiv(doe, 36524)
                             - TruncDiv(doe, 146096), 365)
        year == yoe + era * 400
        doy  == doe - (365 * yoe + TruncDiv(yoe, 4) - TruncDiv(yoe, 100))
        mp   == TruncDiv(5 * doy + 2, 153)
        day  == doy - TruncDiv(153 * mp + 2, 5) + 1
        mon  == IF mp < 10 THEN mp + 3 ELSE mp - 9
    IN  MkDate(AsU8(day), AsU8(mon), IF mon <= 2 THEN year + mon ELSE year)

\* A day count that truncates the era of a negative year towards zero, to
\* compare against.
get_days_from_date_trunc_era(dt) ==
    LET y   == IF dt.m <= 2 THEN dt.y - 1 ELSE dt.y
        era == TruncDiv(y, 400)
        yoe == y - era * 400
        doy == IF dt.m > 2
               THEN TruncDiv(153 * (dt.m - 3) + 2, 5) + dt.d - 1
               ELSE TruncDiv(153 * (dt.m + 9) + 2, 5) + dt.d - 1
        doe == yoe * 365 + TruncDiv(yoe, 4) - TruncDiv(yoe, 100) + doy
    IN  era * 146097 + doe - 719468

get_days_from_date(dt) ==
    LET y   == IF dt.m <= 2 THEN dt.y - 1 ELSE dt.y
        era == IF y >= 0 THEN TruncDiv(y, 400) ELSE TruncDiv(y - 399, 400)
        yoe == y - era * 400
        doy == IF dt.m > 2
               THEN TruncDiv(153 * (dt.m - 3) + 2, 5) + dt.d - 1
               ELSE TruncDiv(153 * (dt.m + 9) + 2, 5) + dt.d - 1
        doe == yoe * 365 + TruncDiv(yoe, 4) - TruncDiv(yoe, 100) + doy
    IN  era * 146097 + doe - 719468

\* Only called with month in 1..12 (is_date_valid returns before it otherwise).
get_max_days_of_month(month, year) ==
    IF is_leap_year(year)
    THEN LAST_DAY_OF_MONTH_LEAP[month]
    ELSE LAST_DAY_OF_MONTH_COMMON[month]

\* A validity test that looks at the month only, to compare against.
is_date_valid_no_day_check(dt) == ~(dt.m < 1 \/ dt.m > 12)

is_date_valid(dt) ==
    IF dt.m < 1 \/ dt.m > 12 THEN FALSE
    ELSE IF dt.d < 1 \/ dt.d > get_max_days_of_month(dt.m, dt.y) THEN FALSE
    ELSE TRUE

(***************************************************************************)
(* A call that can abort returns Ok(v) or Panic.                           *)
(***************************************************************************)
Ok(v) == [panic |-> FALSE, v |-> v]

Panic == [panic |-> TRUE, v |-> 0]

(***************************************************************************)
(* date.rs: impl Date.  Day and month are u8, the year is i32.             *)
(***************************************************************************)
Date_new == MkDate(1, 1, 0)

Date_from(day, month, year) ==
    LET new_date == MkDate(day, month, year)
    IN  IF is_date_valid(new_date) = FALSE THEN InvalidDate ELSE new_date

\* A set() that leaves the receiver alone when the arguments are invalid, to
\* compare against.
Date_set_keep_old(self, day, month, year) ==
    LET assigned == [self EXCEPT !.d = day, !.m = month, !.y = year]
    IN  IF is_date_valid(assigned) = FALSE THEN self ELSE assigned

\* set() assigns the three fields and then overwrites them when invalid.
Date_set(self, day, month, year) ==
    LET assigned == [self EXCEPT !.d = day, !.m = month, !.y = year]
    IN  IF is_date_valid(assigned) = FALSE
        THEN [assigned EXCEPT !.d = 0, !.m = 0, !.y = 0]
        ELSE assigned

\* from_system_date(): sys_days is the clock's sys_secs / 86_400, a u64.
Date_from_system_date(sys_days) == get_date_from_days(sys_days)

RECURSIVE SumTable(_, _)
SumTable(table, n) == IF n = 0 THEN 0 ELSE SumTable(table, n - 1) + table[n]

\* A day of the year that always sums the common-year table, to compare
\* against.
get_day_of_year_common(self) ==
    IF self.m = 0 THEN Panic
    ELSE IF self.m - 1 > 12 THEN Panic
    ELSE Ok(self.d + SumTable(LAST_DAY_OF_MONTH_COMMON, self.m - 1))

\* `for n in 0..m - 1 { d += TABLE[n] }` with m: usize.  m = 0 underflows:
\* a panic in a debug build, and in a release build the range wraps to
\* 0..usize::MAX and the index 12 panics.  m - 1 > 12 reaches index 12 too.
get_day_of_year(self) ==
    LET table == IF is_leap_year(self.y) THEN LAST_DAY_OF_MONTH_LEAP
                                         ELSE LAST_DAY_OF_MONTH_COMMON
    IN  IF self.m = 0 THEN Panic
        ELSE IF self.m - 1 > 12 THEN Panic
        ELSE Ok(self.d + SumTable(table, self.m - 1))

\* The weekday without the branch for days before 1969-12-28, to compare against.
get_weekday_no_branch(self) ==
    LET days == get_days_from_date(self)
    IN  AsU8(TruncRem(days + 4, 7))

get_weekday(self) ==
    LET days == get_days_from_date(self)
        weekday == IF days >= -4 THEN TruncRem(days + 4, 7)
                                 ELSE TruncRem(days + 5, 7) + 6
    IN  AsU8(weekday)

get_iso_week_of_year(self) ==
    LET jan1      == MkDate(1, 1, self.y)
        days_jan1 == get_days_from_date(jan1)
        days_date == get_days_from_date(self)
        weeks     == TruncDiv(days_date - days_jan1, 7) + 1
    IN  AsU8(weeks)

get_week_of_year(self, firstweekday) ==
    LET wd0  == get_weekday(self)
        wday == IF firstweekday # 0
                THEN (IF wd0 = 0 THEN 6 ELSE wd0 - 1)
                ELSE wd0
        yday == get_day_of_year(self)
    IN  IF yday.panic THEN Panic
        ELSE Ok(AsU8(TruncDiv(yday.v + 7 - wday, 7)))

diff_in_days(self, other) ==
    LET d1_days == get_days_from_date(self)
        d2_days == get_days_from_date(other)
    IN  d2_days - d1_days

Revalidated(new_date) ==
    IF is_date_valid(new_date) = FALSE THEN InvalidDate ELSE new_date

add_date(self, other) ==
    Revalidated(get_date_from_days(get_days_from_date(self) + get_days_from_date(other)))

sub_date(self, other) ==
    Revalidated(get_date_from_days(get_days_from_date(self) - get_days_from_date(other)))

add_months(self, months) ==
    LET mon == self.m + months
    IN  IF mon > 12
        THEN MkDate(self.d, AsU8(mon % 12), self.y + TruncDiv(mon, 12))
        ELSE MkDate(self.d, AsU8(mon), self.y)

sub_months(self, months) ==
    LET y1  == IF months > 12 THEN self.y - TruncDiv(months, 12) ELSE self.y
        mon == IF months > 12 THEN TruncRem(months, 12) ELSE months
    IN  IF mon >= self.m
        THEN MkDate(self.d, 12 - AsU8(mon - self.m), y1 - 1)
        ELSE MkDate(self.d, self.m - AsU8(mon), y1)

add_days(self, days) ==
    Revalidated(get_date_from_days(get_days_from_date(self) + days))

sub_days(self, days) ==
    Revalidated(get_date_from_days(get_days_from_date(self) - days))

(***************************************************************************)
(* Second counts.  time.rs computes them in u32 and i64, and they pass     *)
(* 2^32, which TLC's 32-bit integers cannot hold.  A second count is       *)
(* therefore held exactly as [hi, lo] = hi * 3600 + lo with 0 <= lo < 3600 *)
(* (2^32 = 1193046 * 3600 + 1696).                                         *)
(***************************************************************************)
WNorm(hi, lo) == [hi |-> hi + (lo \div 3600), lo |-> lo % 3600]

WInt(n) == WNorm(0, n)

WAdd(a, b) == WNorm(a.hi + b.hi, a.lo + b.lo)

WSub(a, b) == WNorm(a.hi - b.hi, a.lo - b.lo)

WLess(a, b) == a.hi < b.hi \/ (a.hi = b.hi /\ a.lo < b.lo)

WZero == WInt(0)

TwoPow32 == [hi |-> 1193046, lo |-> 1696]

\* k * 2^32, for the few multiples the model's values need.
WTimesTwoPow32(k) == WNorm(k * TwoPow32.hi, k * TwoPow32.lo)

\* x mod 2^32: the value of a wrapping u32 computation whose exact result is x.
WrapU32(x) ==
    LET k == CHOOSE j \in -8..8 :
                 /\ ~WLess(x, WTimesTwoPow32(j))
                 /\ WLess(x, WTimesTwoPow32(j + 1))
    IN  WSub(x, WTimesTwoPow32(k))

TwoPow31 == [hi |-> 596523, lo |-> 848]

\* The integer a wide value stands for, for values inside the i32 range.
WValue(w) ==
    IF w.hi < 0 THEN (w.hi + 1) * 3600 + (w.lo - 3600) ELSE w.hi * 3600 + w.lo

\* `x as i32` of a u32 x: the values from 2^31 up come out as x - 2^32.
U32AsI32(x) == IF WLess(x, TwoPow31) THEN WValue(x) ELSE WValue(WSub(x, TwoPow32))

\* An i32 computation whose exact result is x: outside the i32 range it is a
\* panic in a debug build and wraps modulo 2^32 in a release build.
WrapI32(x, bld) ==
    IF WLess(x, WSub(WZero, TwoPow31))
    THEN IF bld = "debug" THEN Panic ELSE Ok(WValue(WAdd(x, TwoPow32)))
    ELSE IF ~WLess(x, TwoPow31)
    THEN IF bld = "debug" THEN Panic ELSE Ok(WValue(WSub(x, TwoPow32)))
    ELSE Ok(WValue(x))

\* `y: self.y + years as i32` with years: u32, given as a wide value.
add_years(self, years, bld) ==
    LET y == WrapI32(WAdd(WInt(self.y), WInt(U32AsI32(years))), bld)
    IN  IF y.panic THEN Panic ELSE Ok(MkDate(self.d, self.m, y.v))

sub_years(self, years, bld) ==
    LET y == WrapI32(WSub(WInt(self.y), WInt(U32AsI32(years))), bld)
    IN  IF y.panic THEN Panic ELSE Ok(MkDate(self.d, self.m, y.v))

(***************************************************************************)
(* time.rs.  The hour is i32, minute and second are i8.                    *)
(***************************************************************************)
MkTime(hour, minute, second) == [h |-> hour, m |-> minute, s |-> second]

InvalidTime == MkTime(0, -1, -1)

\* A validity test without the upper limits, to compare against.
is_time_valid_no_upper(t) == t.m >= 0 /\ t.s >= 0

is_time_valid(t) == t.m >= 0 /\ t.m < 60 /\ t.s >= 0 /\ t.s < 60

\* The exact value of h * 3600 + m * 60 + s.
SignedTotal(t) == WNorm(t.h, t.m * 60 + t.s)

\* `t.h as u32 * 3_600 + t.m as u32 * 60 + t.s as u32`, left to right in u32.
\* A negative field is cast to 2^32 + field.  Whether a step overflows:
\*   h as u32 * 3600  overflows iff h as u32 > 1193046 (any negative h is >= 2^31);
\*   m as u32 * 60    overflows iff m < 0 (m as u32 >= 2^32 - 128);
\*   the first sum    overflows iff it reaches 2^32;
\*   adding s as u32  overflows iff the sum reaches 2^32, which for s < 0
\*                    (s as u32 = 2^32 + s) is: sum + s >= 0.
time_to_secs_overflows(t) ==
    LET sum == WNorm(t.h, t.m * 60)
    IN  \/ t.h < 0
        \/ t.h > TwoPow32.hi
        \/ t.m < 0
        \/ ~WLess(sum, TwoPow32)
        \/ (t.s >= 0 /\ ~WLess(WAdd(sum, WInt(t.s)), TwoPow32))
        \/ (t.s < 0 /\ ~WLess(WAdd(sum, WInt(t.s)), WZero))

time_to_secs(t, bld) ==
    IF bld = "debug" /\ time_to_secs_overflows(t)
    THEN Panic
    ELSE Ok(WrapU32(SignedTotal(t)))

\* hrs = secs / 3600 and min = rest / 60 truncate towards zero.
secs_to_time(secs) ==
    LET neg  == WLess(secs, WZero) /\ secs.lo # 0
        hrs  == IF neg THEN secs.hi + 1 ELSE secs.hi
        rest == IF neg THEN secs.lo - 3600 ELSE secs.lo
        min  == TruncDiv(rest, 60)
        sec  == rest - min * 60
    IN  MkTime(hrs, min, sec)

Time_new == MkTime(0, 0, 0)

Time_from(hour, minute, second) ==
    LET t == MkTime(hour, minute, second)
    IN  IF is_time_valid(t) = FALSE THEN InvalidTime ELSE t

Time_set(self, hour, minute, second) ==
    LET assigned == [self EXCEPT !.h = hour, !.m = minute, !.s = second]
    IN  IF is_time_valid(assigned) = FALSE
        THEN [assigned EXCEPT !.h = 0, !.m = -1, !.s = -1]
        ELSE assigned

\* seconds is an i64, given as a second count [hi, lo].
Time_from_seconds(seconds) == secs_to_time(seconds)

\* from_system_clock(): clock_secs is sys_secs % 86_400.
Time_from_system_clock(clock_secs) == secs_to_time(WInt(clock_secs))

as_seconds(self, bld) == time_to_secs(self, bld)

\* time_to_secs(t) is evaluated before time_to_secs(self).
diff_in_seconds(self, t, bld) ==
    LET b == time_to_secs(t, bld)
        a == time_to_secs(self, bld)
    IN  IF b.panic \/ a.panic THEN Panic ELSE Ok(WSub(b.v, a.v))

\* self's seconds plus a signed i64 delta, split back into a Time.
TimePlus(self, delta, bld) ==
    LET a == time_to_secs(self, bld)
    IN  IF a.panic THEN Panic ELSE Ok(secs_to_time(WAdd(a.v, delta)))

add_time(self, other, bld) ==
    LET a == time_to_secs(self, bld)
        b == time_to_secs(other, bld)
    IN  IF a.panic \/ b.panic THEN Panic ELSE Ok(secs_to_time(WAdd(a.v, b.v)))

sub_time(self, other, bld) ==
    LET a == time_to_secs(self, bld)
        b == time_to_secs(other, bld)
    IN  IF a.panic \/ b.panic THEN Panic ELSE Ok(secs_to_time(WSub(a.v, b.v)))

add_hours(self, hours, bld) == TimePlus(self, WNorm(hours, 0), bld)

sub_hours(self, hours, bld) == TimePlus(self, WNorm(-hours, 0), bld)

add_minutes(self, minutes, bld) == TimePlus(self, WInt(minutes * 60), bld)

sub_minutes(self, minutes, bld) == TimePlus(self, WInt(-(minutes * 60)), bld)

add_seconds(self, seconds, bld) == TimePlus(self, WInt(seconds), bld)

sub_seconds(self, seconds, bld) == TimePlus(self, WInt(-seconds), bld)

(***************************************************************************)
(* Formatting.  A string is a sequence of one-character strings.           *)
(* format!("{:0w}", n) pads with zeros after the sign, format!("{:w}", n)  *)
(* pads a number with spaces on the left, format!("{}", n) does not pad.   *)
(***************************************************************************)
DIGITS == <<"0", "1", "2", "3", "4", "5", "6", "7", "8", "9">>

RECURSIVE Decimal(_)
Decimal(n) ==
    IF n < 10 THEN <<DIGITS[n + 1]>>
    ELSE Decimal(n \div 10) \o <<DIGITS[(n % 10) + 1]>>

RECURSIVE Repeat(_, _)
Repeat(c, k) == IF k <= 0 THEN <<>> ELSE <<c>> \o Repeat(c, k - 1)

Display(n) == IF n < 0 THEN <<"-">> \o Decimal(-n) ELSE Decimal(n)

\* A zero-padded format that does not pad, to compare against.
FmtZero_no_pad(n, w) == Display(n)

FmtZero(n, w) ==
    LET sign   == IF n < 0 THEN <<"-">> ELSE <<>>
        digits == Decimal(IF n < 0 THEN -n ELSE n)
    IN  sign \o Repeat("0", w - Len(sign) - Len(digits)) \o digits

FmtSpace(n, w) == Repeat(" ", w - Len(Display(n))) \o Display(n)

WEEKDAY_FULL ==
    <<<<"S", "u", "n", "d", "a", "y">>,
      <<"M", "o", "n", "d", "a", "y">>,
      <<"T", "u", "e", "s", "d", "a", "y">>,
      <<"W", "e", "d", "n", "e", "s", "d", "a", "y">>,
      <<"T", "h", "u", "r", "s", "d", "a", "y">>,
      <<"F", "r", "i", "d", "a", "y">>,
      <<"S", "a", "t", "u", "r", "d", "a", "y">>>>

WEEKDAY_ABBREVIATE ==
    <<<<"S", "u", "n">>,
      <<"M", "o", "n">>,
      <<"T", "u", "e">>,
      <<"W", "e", "d">>,
      <<"T", "h", "u">>,
      <<"F", "r", "i">>,
      <<"S", "a", "t">>>>

MONTH_NAME_FULL ==
    <<<<"J", "a", "n", "u", "a", "r", "y">>,
      <<"F", "e", "b", "r", "u", "a", "r", "y">>,
      <<"M", "a", "r", "c", "h">>,
      <<"A", "p", "r", "i", "l">>,
      <<"M", "a", "y">>,
      <<"J", "u", "n", "e">>,
      <<"J", "u", "l", "y">>,
      <<"A", "u", "g", "u", "s", "t">>,
      <<"S", "e", "p", "t", "e", "m", "b", "e", "r">>,
      <<"O", "c", "t", "o", "b", "e", "r">>,
      <<"N", "o", "v", "e", "m", "b", "e", "r">>,
      <<"D", "e", "c", "e", "m", "b", "e", "r">>>>

MONTH_NAME_ABBREVIATE ==
    <<<<"J", "a", "n">>,
      <<"F", "e", "b">>,
      <<"M", "a", "r">>,
      <<"A", "p", "r">>,
      <<"M", "a", "y">>,
      <<"J", "u", "n">>,
      <<"J", "u", "l">>,
      <<"A", "u", "g">>,
      <<"S", "e", "p">>,
      <<"O", "c", "t">>,
      <<"N", "o", "v">>,
      <<"D", "e", "c">>>>

\* TABLE[i] of a 0-based Rust array: out of range is a panic in every build.
TableAt(tbl, i) == IF i >= 0 /\ i < Len(tbl) THEN Ok(tbl[i + 1]) ELSE Panic

Date_as_string(self) ==
    FmtZero(self.y, 4) \o <<"-">> \o FmtZero(self.m, 2) \o <<"-">> \o FmtZero(self.d, 2)

\* What one directive %cn appends to the result.
DateDirective(self, cn) ==
    CASE cn = "%" -> Ok(<<"%">>)
      [] cn = "a" -> TableAt(WEEKDAY_ABBREVIATE, get_weekday(self))
      [] cn = "A" -> TableAt(WEEKDAY_FULL, get_weekday(self))
      [] cn = "b" -> TableAt(MONTH_NAME_ABBREVIATE, self.m)
      [] cn = "B" -> TableAt(MONTH_NAME_FULL, self.m)
      [] cn = "C" -> Ok(FmtZero(TruncDiv(self.y, 100), 2))
      [] cn = "d" -> Ok(FmtZero(self.d, 2))
      [] cn = "D" -> Ok(FmtZero(self.m, 2) \o <<"/">> \o FmtZero(self.d, 2)
                        \o <<"/">> \o FmtZero(self.y, 2))
      [] cn = "e" -> Ok(FmtSpace(self.d, 2))
      [] cn = "F" -> Ok(FmtZero(self.y, 4) \o <<"-">> \o FmtZero(self.m, 2)
                        \o <<"-">> \o FmtZero(self.d, 2))
      [] cn = "g" -> Ok(FmtZero(self.y, 2))
      [] cn = "G" -> Ok(FmtZero(self.y, 4))
      [] cn = "j" -> LET yday == get_day_of_year(self)
                     IN  IF yday.panic THEN Panic ELSE Ok(FmtZero(yday.v, 3))
      [] cn = "m" -> Ok(FmtZero(self.m, 2))
      [] cn = "n" -> Ok(<<"\n">>)
      [] cn = "t" -> Ok(<<"\t">>)
      [] cn = "u" -> LET wd == get_weekday(self)
                     IN  Ok(Display(IF wd = 0 THEN 7 ELSE wd))
      [] cn = "U" -> LET week == get_week_of_year(self, 0)
                     IN  IF week.panic THEN Panic ELSE Ok(Display(week.v))
      [] cn = "V" -> Ok(Display(get_iso_week_of_year(self)))
      [] cn = "W" -> LET week == get_week_of_year(self, 1)
                     IN  IF week.panic THEN Panic ELSE Ok(Display(week.v))
      [] cn = "w" -> Ok(Display(get_weekday(self)))
      [] cn = "y" -> Ok(FmtZero(self.y, 2))
      [] cn = "Y" -> Ok(FmtZero(self.y, 4))
      [] OTHER    -> Ok(<<cn>>)

\* A scanning loop that copies a '%' that ends the pattern, to compare against.
RECURSIVE DateScan_keep_percent(_, _, _, _)
DateScan_keep_percent(self, fmt, i, result) ==
    IF i > Len(fmt) THEN Ok(result)
    ELSE IF fmt[i] = "%"
    THEN IF i + 1 > Len(fmt) THEN Ok(Append(result, "%"))
         ELSE LET piece == DateDirective(self, fmt[i + 1])
              IN  IF piece.panic THEN Panic
                  ELSE DateScan_keep_percent(self, fmt, i + 2, result \o piece.v)
    ELSE DateScan_keep_percent(self, fmt, i + 1, Append(result, fmt[i]))

\* The scanning loop from position i on: a '%' consumes the next character,
\* and a '%' that ends the pattern appends nothing.
RECURSIVE DateScan(_, _, _, _)
DateScan(self, fmt, i, result) ==
    IF i > Len(fmt) THEN Ok(result)
    ELSE IF fmt[i] = "%"
    THEN IF i + 1 > Len(fmt) THEN Ok(result)
         ELSE LET piece == DateDirective(self, fmt[i + 1])
              IN  IF piece.panic THEN Panic
                  ELSE DateScan(self, fmt, i + 2, result \o piece.v)
    ELSE DateScan(self, fmt, i + 1, Append(result, fmt[i]))

Date_as_formated_string(self, date_format) == DateScan(self, date_format, 1, <<>>)

\* An as_string() that does not pad its fields, to compare against.
Time_as_string_unpadded(self) ==
    Display(self.h) \o <<":">> \o Display(self.m) \o <<":">> \o Display(self.s)

Time_as_string(self) ==
    FmtZero(self.h, 2) \o <<":">> \o FmtZero(self.m, 2) \o <<":">> \o FmtZero(self.s, 2)

\* The directives with a %I that shows midnight as 00, to compare against.
TimeDirective_midnight_zero(self, cn) ==
    CASE cn = "%" -> <<"%">>
      [] cn = "H" -> FmtZero(self.h, 2)
      [] cn = "I" -> FmtZero(IF self.h > 12 THEN self.h - 12 ELSE self.h, 2)
      [] cn = "M" -> FmtZero(self.m, 2)
      [] cn = "p" -> IF self.h >= 12 THEN <<"p", ".", "m", ".">>
                                     ELSE <<"a", ".", "m", ".">>
      [] cn = "r" -> LET hour0 == IF self.h = 0 THEN 24 ELSE self.h
                         hour  == IF hour0 > 12 THEN hour0 - 12 ELSE hour0
                         h_12  == IF self.h >= 12 THEN <<"P", "M">> ELSE <<"A", "M">>
                     IN  FmtSpace(hour, 2) \o <<":">> \o FmtZero(self.m, 2) \o <<":">>
                         \o FmtZero(self.s, 2) \o <<" ">> \o h_12
      [] cn = "R" -> FmtZero(self.h, 2) \o <<":">> \o FmtZero(self.m, 2)
      [] cn = "S" -> FmtZero(self.s, 2)
      [] cn = "T" -> FmtZero(self.h, 2) \o <<":">> \o FmtZero(self.m, 2)
                        \o <<":">> \o FmtZero(self.s, 2)
      [] cn = "n" -> <<"\n">>
      [] cn = "t" -> <<"\t">>
      [] OTHER    -> <<cn>>

TimeDirective(self, cn) ==
    CASE cn = "%" -> <<"%">>
      [] cn = "H" -> FmtZero(self.h, 2)
      [] cn = "I" -> FmtZero(IF self.h = 0 THEN 12
                             ELSE IF self.h > 12 THEN self.h - 12
                             ELSE self.h, 2)
      [] cn = "M" -> FmtZero(self.m, 2)
      [] cn = "p" -> IF self.h >= 12 THEN <<"p", ".", "m", ".">>
                                     ELSE <<"a", ".", "m", ".">>
      [] cn = "r" -> LET hour0 == IF self.h = 0 THEN 24 ELSE self.h
                         hour  == IF hour0 > 12 THEN hour0 - 12 ELSE hour0
                         h_12  == IF self.h >= 12 THEN <<"P", "M">> ELSE <<"A", "M">>
                     IN  FmtSpace(hour, 2) \o <<":">> \o FmtZero(self.m, 2) \o <<":">>
                         \o FmtZero(self.s, 2) \o <<" ">> \o h_12
      [] cn = "R" -> FmtZero(self.h, 2) \o <<":">> \o FmtZero(self.m, 2)
      [] cn = "S" -> FmtZero(self.s, 2)
      [] cn = "T" -> FmtZero(self.h, 2) \o <<":">> \o FmtZero(self.m, 2)
                        \o <<":">> \o FmtZero(self.s, 2)
      [] cn = "n" -> <<"\n">>
      [] cn = "t" -> <<"\t">>
      [] OTHER    -> <<cn>>

RECURSIVE TimeScan(_, _, _, _)
TimeScan(self, fmt, i, result) ==
    IF i > Len(fmt) THEN result
    ELSE IF fmt[i] = "%"
    THEN IF i + 1 > Len(fmt) THEN result
         ELSE TimeScan(self, fmt, i + 2, result \o TimeDirective(self, fmt[i + 1]))
    ELSE TimeScan(self, fmt, i + 1, Append(result, fmt[i]))

Time_as_formated_string(self, time_format) == TimeScan(self, time_format, 1, <<>>)

(***************************************************************************)
(* Bounds and input sets.                                                  *)
(***************************************************************************)
\* Arithmetic operations applied to a value since it was constructed or set.
MaxSteps == 1

\* Date::from / Date::set arguments (u8, u8, i32).
MaxMonthInput == 13

DayInputs == {0, 1, 29, 31}

MonthInputs == 0..MaxMonthInput

YearInputs == {-1, 1970, 2000, 2023, 2024}

\* Date::set arguments, applied to every Date the driver can hold.
SetInputs ==
    {<<22, 6, 2024>>, <<29, 2, 1985>>, <<1, 13, 2000>>}

DayOffsets == {0, 1, 59, 365}

MonthOffsets == {0, 1, 11, 12, 13, 24}

YearOffsets == {0, 1}

OperandDates == {Date_from(2, 1, 1970), Date_from(29, 2, 2024), InvalidDate}

\* Days since the epoch read from the system clock: 1970-01-01, 1970-02-01,
\* 1970-03-01, 2024-02-10, 2024-02-29, 2024-06-22.
ClockDays == {0, 31, 59, 19763, 19782, 19896}

Builds == {"debug", "release"}

\* A call: its name, the value it was applied to ("Date" or "Time" for an
\* associated function), its argument and the scalar it returned.
Call(op, pre, arg, ret) == [op |-> op, pre |-> pre, arg |-> arg, ret |-> ret]

NoCall == Call("none", 0, 0, 0)

(***************************************************************************)
(* The Date driver.  A constructor or set starts a value (steps = 0); an   *)
(* arithmetic method replaces the held Date by its result; a derived-value *)
(* method leaves it and records what it returned.                          *)
(***************************************************************************)
\* new, from and from_system_date are associated functions: they read no
\* Date, so what they return does not depend on what ran before.  The driver
\* calls one first and then applies methods to the value.
DateConstructed(op, arg, result) ==
    /\ ~panicked
    /\ last.op = "none"
    /\ date' = result
    /\ last' = Call(op, "Date", arg, 0)
    /\ steps' = 0
    /\ UNCHANGED <<time, panicked, build>>

DateArith(op, arg, result) ==
    /\ ~panicked
    /\ steps < MaxSteps
    /\ date' = result
    /\ last' = Call(op, date, arg, 0)
    /\ steps' = steps + 1
    /\ UNCHANGED <<time, panicked, build>>

\* r is Ok(v) or Panic.
DateDerived(op, arg, r) ==
    /\ ~panicked
    /\ last' = Call(op, date, arg, r.v)
    /\ panicked' = r.panic
    /\ UNCHANGED <<date, time, steps, build>>

DateNew == DateConstructed("new", 0, Date_new)

DateFrom ==
    \E day \in DayInputs, month \in MonthInputs, year \in YearInputs :
        DateConstructed("from", <<day, month, year>>, Date_from(day, month, year))

DateFromSystemDate ==
    \E sys_days \in ClockDays :
        DateConstructed("from_system_date", sys_days, Date_from_system_date(sys_days))

DateSet ==
    \E arg \in SetInputs :
        /\ ~panicked
        /\ date' = Date_set(date, arg[1], arg[2], arg[3])
        /\ last' = Call("set", date, arg, 0)
        /\ steps' = 0
        /\ UNCHANGED <<time, panicked, build>>

DateAddDays == \E n \in DayOffsets : DateArith("add_days", n, add_days(date, n))

DateSubDays == \E n \in DayOffsets : DateArith("sub_days", n, sub_days(date, n))

DateAddDate == \E o \in OperandDates : DateArith("add_date", o, add_date(date, o))

DateSubDate == \E o \in OperandDates : DateArith("sub_date", o, sub_date(date, o))

DateAddMonths == \E n \in MonthOffsets : DateArith("add_months", n, add_months(date, n))

DateSubMonths == \E n \in MonthOffsets : DateArith("sub_months", n, sub_months(date, n))

\* r is Ok(the new Date) or Panic.
DateYearArith(op, arg, r) ==
    /\ ~panicked
    /\ steps < MaxSteps
    /\ date' = IF r.panic THEN date ELSE r.v
    /\ last' = Call(op, date, arg, 0)
    /\ steps' = steps + 1
    /\ panicked' = r.panic
    /\ UNCHANGED <<time, build>>

DateAddYears ==
    \E n \in YearOffsets : DateYearArith("add_years", n, add_years(date, WInt(n), build))

DateSubYears ==
    \E n \in YearOffsets : DateYearArith("sub_years", n, sub_years(date, WInt(n), build))

DateGetDayOfYear == DateDerived("get_day_of_year", 0, get_day_of_year(date))

DateGetIsoWeekOfYear ==
    DateDerived("get_iso_week_of_year", 0, Ok(get_iso_week_of_year(date)))

DateGetWeekOfYear ==
    \E firstweekday \in {0, 1} :
        DateDerived("get_week_of_year", firstweekday, get_week_of_year(date, firstweekday))

DateGetWeekday == DateDerived("get_weekday", 0, Ok(get_weekday(date)))

DateDiffInDays ==
    \E o \in OperandDates : DateDerived("diff_in_days", o, Ok(diff_in_days(date, o)))

DateInit ==
    /\ date = Date_new
    /\ time = Time_new
    /\ last = NoCall
    /\ steps = 0
    /\ panicked = FALSE
    /\ build \in Builds

DateNext ==
    \/ DateNew
    \/ DateFrom
    \/ DateFromSystemDate
    \/ DateSet
    \/ DateAddDays
    \/ DateSubDays
    \/ DateAddDate
    \/ DateSubDate
    \/ DateAddMonths
    \/ DateSubMonths
    \/ DateAddYears
    \/ DateSubYears
    \/ DateGetDayOfYear
    \/ DateGetIsoWeekOfYear
    \/ DateGetWeekOfYear
    \/ DateGetWeekday
    \/ DateDiffInDays

DateSpec == DateInit /\ [][DateNext]_vars

(***************************************************************************)
(* The Time driver, built like the Date driver.  Every arithmetic method   *)
(* goes through time_to_secs and can therefore abort.                      *)
(***************************************************************************)
\* Time::from arguments (i32, i8, i8).  1193046 is the last hour whose
\* seconds fit u32.
HourInputs == {-1, 0, 18, 21, 1193046, 1193047}

MinuteInputs == {-1, 0, 30, 59, 60}

SecondInputs == {-1, 0, 45, 59, 60}

SetTimeInputs == {<<18, 30, 0>>, <<-5, 59, 59>>, <<7, 60, 0>>, <<7, 0, -1>>}

OperandTimes == {Time_from(21, 29, 15), Time_from(0, 30, 0), Time_from(0, 60, 0)}

\* from_seconds arguments (i64): small counts of either sign and the first
\* whole hour whose second count does not fit in a u32.
SecondCounts ==
    {WInt(n) : n \in {-3661, -61, -1, 0, 59, 9000, 86399}}
        \cup {WNorm(TwoPow32.hi + 1, 0)}

\* from_system_clock(): sys_secs % 86_400.
ClockSeconds == {0, 9000, 86399}

HourOffsets == {0, 1, 25}

MinuteOffsets == {1, 61}

SecondOffsets == {1, 3601}

TimeConstructed(op, arg, result) ==
    /\ ~panicked
    /\ last.op = "none"
    /\ time' = result
    /\ last' = Call(op, "Time", arg, 0)
    /\ steps' = 0
    /\ UNCHANGED <<date, panicked, build>>

\* r is Ok(the new Time) or Panic.
TimeArith(op, arg, r) ==
    /\ ~panicked
    /\ steps < MaxSteps
    /\ time' = IF r.panic THEN time ELSE r.v
    /\ last' = Call(op, time, arg, 0)
    /\ steps' = steps + 1
    /\ panicked' = r.panic
    /\ UNCHANGED <<date, build>>

TimeDerived(op, arg, r) ==
    /\ ~panicked
    /\ last' = Call(op, time, arg, r.v)
    /\ panicked' = r.panic
    /\ UNCHANGED <<date, time, steps, build>>

TimeNew == TimeConstructed("new", 0, Time_new)

TimeFrom ==
    \E hour \in HourInputs, minute \in MinuteInputs, second \in SecondInputs :
        TimeConstructed("from", <<hour, minute, second>>, Time_from(hour, minute, second))

TimeFromSeconds ==
    \E seconds \in SecondCounts :
        TimeConstructed("from_seconds", seconds, Time_from_seconds(seconds))

TimeFromSystemClock ==
    \E clock_secs \in ClockSeconds :
        TimeConstructed("from_system_clock", clock_secs, Time_from_system_clock(clock_secs))

TimeSet ==
    \E arg \in SetTimeInputs :
        /\ ~panicked
        /\ time' = Time_set(time, arg[1], arg[2], arg[3])
        /\ last' = Call("set", time, arg, 0)
        /\ steps' = 0
        /\ UNCHANGED <<date, panicked, build>>

TimeAddTime == \E o \in OperandTimes : TimeArith("add_time", o, add_time(time, o, build))

TimeSubTime == \E o \in OperandTimes : TimeArith("sub_time", o, sub_time(time, o, build))

TimeAddHours == \E n \in HourOffsets : TimeArith("add_hours", n, add_hours(time, n, build))

TimeSubHours == \E n \in HourOffsets : TimeArith("sub_hours", n, sub_hours(time, n, build))

TimeAddMinutes ==
    \E n \in MinuteOffsets : TimeArith("add_minutes", n, add_minutes(time, n, build))

TimeSubMinutes ==
    \E n \in MinuteOffsets : TimeArith("sub_minutes", n, sub_minutes(time, n, build))

TimeAddSeconds ==
    \E n \in SecondOffsets : TimeArith("add_seconds", n, add_seconds(time, n, build))

TimeSubSeconds ==
    \E n \in SecondOffsets : TimeArith("sub_seconds", n, sub_seconds(time, n, build))

TimeAsSeconds == TimeDerived("as_seconds", 0, as_seconds(time, build))

TimeDiffInSeconds ==
    \E o \in OperandTimes :
        TimeDerived("diff_in_seconds", o, diff_in_seconds(time, o, build))

TimeInit ==
    /\ date = Date_new
    /\ time = Time_new
    /\ last = NoCall
    /\ steps = 0
    /\ panicked = FALSE
    /\ build \in Builds

TimeNext ==
    \/ TimeNew
    \/ TimeFrom
    \/ TimeFromSeconds
    \/ TimeFromSystemClock
    \/ TimeSet
    \/ TimeAddTime
    \/ TimeSubTime
    \/ TimeAddHours
    \/ TimeSubHours
    \/ TimeAddMinutes
    \/ TimeSubMinutes
    \/ TimeAddSeconds
    \/ TimeSubSeconds
    \/ TimeAsSeconds
    \/ TimeDiffInSeconds

TimeSpec == TimeInit /\ [][TimeNext]_vars

(***************************************************************************)
(* The functions on their own.  Init draws one input (a day count, a year, *)
(* a (day, month, year) triple or an (hour, minute, second) triple); the   *)
(* actions apply the conversion, the leap-year test or a constructor to    *)
(* it, and then the derived-value methods to the value constructed.        *)
(***************************************************************************)
\* Day counts: DaySpan days either side of 0000-03-01 (where z changes
\* sign), the epoch, 2000-03-01 (an era boundary) and 2024-02-29.
DaySpan == 400

DayAnchors == {-719468, 0, 11017, 19782}

DayCounts == UNION {(a - DaySpan)..(a + DaySpan) : a \in DayAnchors}

MaxLeapYear == 2100

LeapYearInputs == (-MaxLeapYear)..MaxLeapYear

MaxDayInput == 32

CivilDays == 0..MaxDayInput

CivilYears == {-400, -1, 0, 1600, 1900, 1969, 1970, 1985, 2000, 2023, 2024, 2100}

ClockHours == {-24, -1, 0, 1, 11, 12, 13, 18, 21, 23, 24, 99, 100}

ClockMinutes == {-128, -1, 0, 1, 29, 30, 59, 60, 127}

FnDateFromDays ==
    /\ last.op = "in_days"
    /\ date' = get_date_from_days(last.arg)
    /\ last' = Call("get_date_from_days", 0, last.arg, 0)
    /\ UNCHANGED <<time, steps, panicked, build>>

\* The day count of the Date that get_date_from_days returned for last.arg.
FnDaysFromDate ==
    /\ last.op = "get_date_from_days"
    /\ last' = Call("get_days_from_date", date, last.arg, get_days_from_date(date))
    /\ UNCHANGED <<date, time, steps, panicked, build>>

FnIsLeapYear ==
    /\ last.op = "in_year"
    /\ last' = Call("is_leap_year", 0, last.arg,
                     [leap |-> is_leap_year(last.arg),
                      feb  |-> get_max_days_of_month(2, last.arg)])
    /\ UNCHANGED <<date, time, steps, panicked, build>>

FnDateFrom ==
    /\ last.op = "in_civil"
    /\ date' = Date_from(last.arg[1], last.arg[2], last.arg[3])
    /\ last' = Call("from", "Date", last.arg, 0)
    /\ UNCHANGED <<time, steps, panicked, build>>

FnTimeFrom ==
    /\ last.op = "in_hms"
    /\ time' = Time_from(last.arg[1], last.arg[2], last.arg[3])
    /\ last' = Call("from", "Time", last.arg, 0)
    /\ UNCHANGED <<date, steps, panicked, build>>

\* Every directive of the Date formatter on its own, an unrecognized one, a
\* lone '%', and patterns that mix literal text with directives.
DateDirectives ==
    {"%", "a", "A", "b", "B", "C", "d", "D", "e", "F", "g", "G", "j", "m",
     "n", "t", "u", "U", "V", "W", "w", "y", "Y", "x"}

DatePatterns ==
    {<<"%", cn>> : cn \in DateDirectives}
        \cup {<<"%">>, <<"d", "%", "%", "Y">>, <<"%", "d", ".", "%", "m", "%">>}

TimeDirectives == {"%", "H", "I", "M", "p", "r", "R", "S", "T", "n", "t", "x"}

TimePatterns ==
    {<<"%", cn>> : cn \in TimeDirectives}
        \cup {<<"%">>, <<"H", "%", "%", "M">>, <<"%", "H", "h", "%", "M", "%">>}

DateAsString == DateDerived("as_string", 0, Ok(Date_as_string(date)))

DateAsFormatedString ==
    \E date_format \in DatePatterns :
        DateDerived("as_formated_string", date_format,
                    Date_as_formated_string(date, date_format))

TimeAsString == TimeDerived("as_string", 0, Ok(Time_as_string(time)))

TimeAsFormatedString ==
    \E time_format \in TimePatterns :
        TimeDerived("as_formated_string", time_format,
                    Ok(Time_as_formated_string(time, time_format)))

\* The derived-value methods of the Date that from returned.
FnDateDerived ==
    /\ last.op = "from"
    /\ last.pre = "Date"
    /\ \/ DateGetDayOfYear
       \/ DateGetIsoWeekOfYear
       \/ DateGetWeekOfYear
       \/ DateGetWeekday
       \/ DateDiffInDays
       \/ DateAsString
       \/ DateAsFormatedString

\* The day count of the Date that from returned.
FnDayCountOfDate ==
    /\ last.op = "from"
    /\ last.pre = "Date"
    /\ last' = Call("day_count", date, 0, get_days_from_date(date))
    /\ UNCHANGED <<date, time, steps, panicked, build>>

\* Year counts over the whole u32 range: small ones, the largest that
\* `as i32` keeps, and one above it (3000000000).
YearShifts == {WInt(0), WInt(1), WInt(4), WInt(2147483647), WNorm(833333, 1200)}

\* add_years and sub_years of the Date that from returned; the Date they
\* return is recorded as the result.
FnYearShift ==
    /\ last.op = "from"
    /\ last.pre = "Date"
    /\ \E years \in YearShifts :
           \/ DateDerived("add_years", years, add_years(date, years, build))
           \/ DateDerived("sub_years", years, sub_years(date, years, build))

\* Dates to compare with: neighbours across a month end, a leap day, a year
\* end, the year 0 and the epoch, and the sentinel.
ComparedDates ==
    {MkDate(31, 1, 2024), MkDate(1, 2, 2024), MkDate(29, 2, 2024),
     MkDate(1, 3, 2024), MkDate(31, 12, 2023), MkDate(1, 1, 1970),
     MkDate(31, 12, -1), MkDate(1, 1, 0), InvalidDate}

\* a < b and a == b of the Date that from returned with another Date.
FnDateCompare ==
    /\ last.op = "from"
    /\ last.pre = "Date"
    /\ \E other \in ComparedDates :
           DateDerived("cmp", other,
                       Ok([lt |-> Date_lt(date, other), eq |-> Date_eq(date, other)]))

\* The formatting methods of the Time that from returned.
FnTimeDerived ==
    /\ last.op = "from"
    /\ last.pre = "Time"
    /\ \/ TimeAsString
       \/ TimeAsFormatedString

FnInit ==
    /\ date = Date_new
    /\ time = Time_new
    /\ steps = 0
    /\ panicked = FALSE
    /\ build \in Builds
    /\ \/ \E n \in DayCounts : last = Call("in_days", 0, n, 0)
       \/ \E y \in LeapYearInputs : last = Call("in_year", 0, y, 0)
       \/ \E day \in CivilDays, month \in MonthInputs, year \in CivilYears :
              last = Call("in_civil", 0, <<day, month, year>>, 0)
       \/ \E hour \in ClockHours, minute \in ClockMinutes, second \in ClockMinutes :
              last = Call("in_hms", 0, <<hour, minute, second>>, 0)

FnNext ==
    \/ FnDateFromDays
    \/ FnDaysFromDate
    \/ FnIsLeapYear
    \/ FnDateFrom
    \/ FnTimeFrom
    \/ FnDateDerived
    \/ FnDayCountOfDate
    \/ FnYearShift
    \/ FnDateCompare
    \/ FnTimeDerived

FnSpec == FnInit /\ [][FnNext]_vars

(***************************************************************************)
(* The calendar as the claims state it, independent of the code's          *)
(* arithmetic: divisibility by TLA+'s floored %, month lengths by name.    *)
(***************************************************************************)
Divisible(n, k) == n % k = 0

LeapRule(year) ==
    Divisible(year, 4) /\ (~Divisible(year, 100) \/ Divisible(year, 400))

DaysInMonth(month, year) ==
    IF month = 2 THEN (IF LeapRule(year) THEN 29 ELSE 28)
    ELSE IF month \in {4, 6, 9, 11} THEN 30
    ELSE 31

CivilValid(dt) ==
    /\ dt.m \in 1..12
    /\ dt.d >= 1
    /\ dt.d <= DaysInMonth(dt.m, dt.y)

NextDay(dt) ==
    IF dt.d < DaysInMonth(dt.m, dt.y) THEN MkDate(dt.d + 1, dt.m, dt.y)
    ELSE IF dt.m < 12 THEN MkDate(1, dt.m + 1, dt.y)
    ELSE MkDate(1, 1, dt.y + 1)

TimeValid(t) == t.m >= 0 /\ t.m < 60 /\ t.s >= 0 /\ t.s < 60

DateArithOps ==
    {"add_days", "sub_days", "add_date", "sub_date",
     "add_months", "sub_months", "add_years", "sub_years"}

(***************************************************************************)
(* Claims.                                                                 *)
(***************************************************************************)

\* C1 (FnSpec): for every day count n, negative ones included,
\* get_days_from_date(get_date_from_days(n)) = n.
C1_RoundTrip ==
    last.op = "get_days_from_date" => last.ret = last.arg

\* C2 (FnSpec): Date::from(day, month, year) returns the sentinel (0, 0, 0)
\* when the triple is not a valid civil date under the 4/100/400 rule, and
\* exactly (day, month, year) when it is.
C2_FromValidity ==
    (last.op = "from" /\ last.pre = "Date") =>
        LET given == MkDate(last.arg[1], last.arg[2], last.arg[3])
        IN  date = IF CivilValid(given) THEN given ELSE InvalidDate

\* C2 witness: Date::from(29, 2, 1985) has returned the sentinel.
C2_Witness ==
    /\ last.op = "from"
    /\ last.pre = "Date"
    /\ last.arg = <<29, 2, 1985>>
    /\ date = InvalidDate

\* C3 (DateSpec): a constructor or mutator never produces a Date that is
\* neither a valid civil date nor the sentinel: new, from and set do not, and
\* an arithmetic method applied to a valid-or-sentinel Date does not.
C3_ValidOrSentinel ==
    /\ last.op \in {"new", "from", "set"} => (CivilValid(date) \/ date = InvalidDate)
    /\ (last.op \in DateArithOps /\ (CivilValid(last.pre) \/ last.pre = InvalidDate))
           => (CivilValid(date) \/ date = InvalidDate)

\* C4 (TimeSpec): after any sequence of Time operations the Time has minute
\* and second in [0, 60) or is the sentinel (0, -1, -1).
C4_TimeInvariant ==
    TimeValid(time) \/ time = InvalidTime

\* C5 (TimeSpec): Time::from and Time::set yield (hour, minute, second)
\* unchanged iff 0 <= minute < 60 and 0 <= second < 60, whatever the hour, and
\* otherwise the sentinel (0, -1, -1).
C5_FromSetValidity ==
    last.op \in {"from", "set"} =>
        LET given == MkTime(last.arg[1], last.arg[2], last.arg[3])
        IN  time = IF TimeValid(given) THEN given ELSE InvalidTime

\* C5 witness: set has rejected its arguments on a Time that held something
\* else, discarding a non-zero hour.
C5_Witness ==
    /\ last.op = "set"
    /\ last.arg[1] # 0
    /\ last.pre # InvalidTime
    /\ time = InvalidTime

\* C6 (DateSpec): for a valid Date D and n >= 0, D.add_days(n) has day count
\* day_count(D) + n and D.sub_days(n) has day_count(D) - n, so diff_in_days
\* gives n and -n, and D.add_days(0) = D.
C6_AddSubDays ==
    /\ (last.op = "add_days" /\ CivilValid(last.pre)) =>
           /\ get_days_from_date(date) = get_days_from_date(last.pre) + last.arg
           /\ diff_in_days(last.pre, date) = last.arg
           /\ (last.arg = 0 => date = last.pre)
    /\ (last.op = "sub_days" /\ CivilValid(last.pre)) =>
           /\ get_days_from_date(date) = get_days_from_date(last.pre) - last.arg
           /\ diff_in_days(last.pre, date) = -last.arg

\* C7 (FnSpec): is_leap_year(year) holds iff year is divisible by 4 and not
\* by 100, or by 400, negative years included; February has 29 days exactly
\* then.
C7_LeapYear ==
    last.op = "is_leap_year" =>
        /\ last.ret.leap = LeapRule(last.arg)
        /\ (last.ret.feb = 29) = LeapRule(last.arg)
        /\ last.ret.feb \in {28, 29}
        /\ (last.arg \in {1600, 2000, 2024} => last.ret.leap)
        /\ (last.arg \in {1900, 2100, 2023} => ~last.ret.leap)

\* C7 witness: a negative century year divisible by 400 was found leap.
C7_Witness ==
    /\ last.op = "is_leap_year"
    /\ last.arg = -400
    /\ last.ret.leap
    /\ last.ret.feb = 29

\* C8 (FnSpec): for a valid Date, get_weekday() is in 0..6, equals
\* (day count + 4) mod 7 with a floored modulo, is 4 for 1970-01-01, and the
\* next calendar day has weekday (weekday + 1) mod 7.
C8_Weekday ==
    (last.op = "get_weekday" /\ CivilValid(date)) =>
        /\ last.ret \in 0..6
        /\ last.ret = (get_days_from_date(date) + 4) % 7
        /\ (date = MkDate(1, 1, 1970) => last.ret = 4)
        /\ get_weekday(NextDay(date)) = (last.ret + 1) % 7

\* C8 witness: a Saturday more than four days before the epoch.
C8_Witness ==
    /\ last.op = "get_weekday"
    /\ date = MkDate(20, 12, 1969)
    /\ last.ret = 6

\* C9 (FnSpec): every public Date and Time operation is total: on every
\* value the constructors return, the sentinels and December dates included,
\* each derived-value and formatting method returns a value, and none aborts
\* on an out-of-range table index or an integer overflow.
C9_Total == ~panicked

\* C10 (TimeSpec): for valid Times t1, t2 with non-negative hours,
\* t1.diff_in_seconds(&t2) returns total_seconds(t2) - total_seconds(t1).
C10_DiffInSeconds ==
    (/\ last.op = "diff_in_seconds"
     /\ TimeValid(time) /\ time.h >= 0
     /\ TimeValid(last.arg) /\ last.arg.h >= 0) =>
        /\ ~panicked
        /\ last.ret = WSub(SignedTotal(last.arg), SignedTotal(time))

\* C11 (TimeSpec): for a signed second count t, Time::from_seconds(t) = (h, m, s)
\* has h*3600 + m*60 + s = t with |m| < 60, |s| < 60 and no component of the
\* sign opposite to t; for t >= 0 it is (t div 3600, (t mod 3600) div 60,
\* t mod 60), from_seconds(9000) = (2, 30, 0), and
\* from_seconds(t).as_seconds() = t.
C11_FromSeconds ==
    /\ last.op = "from_seconds" =>
           LET t == last.arg
           IN  /\ SignedTotal(time) = t
               /\ time.m > -60 /\ time.m < 60
               /\ time.s > -60 /\ time.s < 60
               /\ (~WLess(t, WZero) =>
                      /\ time.h >= 0 /\ time.m >= 0 /\ time.s >= 0
                      /\ time = MkTime(t.hi, t.lo \div 60, t.lo % 60))
               /\ (WLess(t, WZero) =>
                      time.h <= 0 /\ time.m <= 0 /\ time.s <= 0)
               /\ (t = WInt(9000) => time = MkTime(2, 30, 0))
    /\ \A t \in SecondCounts :
           (/\ last.op = "as_seconds"
            /\ ~WLess(t, WZero)
            /\ last.pre = Time_from_seconds(t)) =>
               (~panicked /\ last.ret = t)

\* C12 (TimeSpec): for valid Times a, b with non-negative hours, a.add_time(&b)
\* is the valid Time whose total seconds are total(a) + total(b), carries going
\* into the hour; add_time is commutative; 18:00:00 + 00:30:00 = 18:30:00.
C12_AddTime ==
    (/\ last.op = "add_time"
     /\ TimeValid(last.pre) /\ last.pre.h >= 0
     /\ TimeValid(last.arg) /\ last.arg.h >= 0) =>
        /\ ~panicked
        /\ TimeValid(time)
        /\ SignedTotal(time) = WAdd(SignedTotal(last.pre), SignedTotal(last.arg))
        /\ add_time(last.arg, last.pre, build) = Ok(time)
        /\ ((last.pre = MkTime(18, 0, 0) /\ last.arg = MkTime(0, 30, 0))
                => time = MkTime(18, 30, 0))

\* C13 (DateSpec): whatever Date d held before (valid, the sentinel or
\* neither), after d.set(day, month, year) d equals
\* Date::from(day, month, year).
C13_SetIsFrom ==
    last.op = "set" =>
        date = Date_from(last.arg[1], last.arg[2], last.arg[3])

\* C13 witness: set has rejected its arguments on a Date that was neither
\* valid nor the sentinel, and left the sentinel.
C13_Witness ==
    /\ last.op = "set"
    /\ ~CivilValid(last.pre)
    /\ last.pre # InvalidDate
    /\ ~CivilValid(MkDate(last.arg[1], last.arg[2], last.arg[3]))
    /\ date = InvalidDate

\* The decimal digits of n in exactly w places, most significant first.
RECURSIVE PowerOfTen(_)
PowerOfTen(k) == IF k = 0 THEN 1 ELSE 10 * PowerOfTen(k - 1)

PaddedDigits(n, w) ==
    [i \in 1..w |-> DIGITS[((n \div PowerOfTen(w - i)) % 10) + 1]]

\* The day of the year counted from 1 January of the date's year.
OrdinalDay(dt) ==
    get_days_from_date(dt) - get_days_from_date(MkDate(1, 1, dt.y)) + 1

\* A single directive %cn was rendered for the held Date.
Rendered(cn) ==
    /\ last.op = "as_formated_string"
    /\ last.pre = date
    /\ last.arg = <<"%", cn>>

\* C14 (FnSpec): for a valid Date with year in 0..9999, %Y and %G render
\* the year in 4 zero-padded digits, %y and %g the last two digits of the
\* year, %C the two digits of year div 100, %j the day of the year in 3
\* zero-padded digits and %e the day of the month space-padded to width 2.
C14_PaddedFields ==
    (CivilValid(date) /\ date.y \in 0..9999 /\ ~panicked) =>
        /\ (Rendered("Y") \/ Rendered("G")) => last.ret = PaddedDigits(date.y, 4)
        /\ (Rendered("y") \/ Rendered("g")) => last.ret = PaddedDigits(date.y % 100, 2)
        /\ Rendered("C") => last.ret = PaddedDigits(date.y \div 100, 2)
        /\ Rendered("j") => last.ret = PaddedDigits(OrdinalDay(date), 3)
        /\ Rendered("e") =>
               last.ret = IF date.d < 10 THEN <<" ", DIGITS[date.d + 1]>>
                          ELSE PaddedDigits(date.d, 2)

\* C15 (FnSpec): for a valid Date with month m, %B renders the full English
\* name of month m (1 = January ... 12 = December) and %b its three-letter
\* abbreviation; %A and %a render the name and the abbreviation of the
\* weekday that get_weekday() returns (0 = Sunday).
C15_Names ==
    CivilValid(date) =>
        /\ Rendered("B") => (~panicked /\ last.ret = MONTH_NAME_FULL[date.m])
        /\ Rendered("b") => (~panicked /\ last.ret = MONTH_NAME_ABBREVIATE[date.m])
        /\ Rendered("A") => (~panicked /\ last.ret = WEEKDAY_FULL[get_weekday(date) + 1])
        /\ Rendered("a") =>
               (~panicked /\ last.ret = WEEKDAY_ABBREVIATE[get_weekday(date) + 1])

\* How many days from 1 January of dt's year through dt fall on weekday wd
\* (0 = Sunday), the weekday taken from the day count with a floored modulo.
WeekdaysSoFar(dt, wd) ==
    LET jan1 == get_days_from_date(MkDate(1, 1, dt.y))
    IN  Cardinality({k \in 0..(OrdinalDay(dt) - 1) : (jan1 + k + 4) % 7 = wd})

\* C16 (FnSpec): for a valid Date, get_week_of_year(0) is the number of
\* Sundays from 1 January through the date (strftime %U) and
\* get_week_of_year(non-zero) the number of Mondays (%W); both lie in 0..53.
C16_WeekOfYear ==
    (last.op = "get_week_of_year" /\ CivilValid(date)) =>
        /\ ~panicked
        /\ last.ret \in 0..53
        /\ last.ret = WeekdaysSoFar(date, IF last.arg = 0 THEN 0 ELSE 1)

\* The ISO 8601 week number: the week (Monday to Sunday) belongs to the year
\* that holds its Thursday, and is numbered by that Thursday's place in it.
IsoWeek(dt) ==
    LET days     == get_days_from_date(dt)
        isoday   == ((days + 3) % 7) + 1
        thursday == days - isoday + 4
        jan1(y)  == get_days_from_date(MkDate(1, 1, y))
        isoyear  == IF thursday < jan1(dt.y) THEN dt.y - 1
                    ELSE IF thursday >= jan1(dt.y + 1) THEN dt.y + 1
                    ELSE dt.y
    IN  ((thursday - jan1(isoyear)) \div 7) + 1

\* C17 (FnSpec): for a valid Date, get_iso_week_of_year() is the ISO 8601
\* week number of the date, a value in 1..53.
C17_IsoWeek ==
    (last.op = "get_iso_week_of_year" /\ CivilValid(date)) =>
        /\ last.ret \in 1..53
        /\ last.ret = IsoWeek(date)

\* What a pattern must render to, piece by piece from position i: a character
\* outside a directive is itself, '%' with the character after it is what that
\* directive renders on its own, and a '%' that ends the pattern is nothing.
RECURSIVE DatePieces(_, _, _)
DatePieces(self, fmt, i) ==
    IF i > Len(fmt) THEN <<>>
    ELSE IF fmt[i] # "%" THEN <<fmt[i]>> \o DatePieces(self, fmt, i + 1)
    ELSE IF i = Len(fmt) THEN <<>>
    ELSE Date_as_formated_string(self, <<"%", fmt[i + 1]>>).v
             \o DatePieces(self, fmt, i + 2)

RECURSIVE TimePieces(_, _, _)
TimePieces(self, fmt, i) ==
    IF i > Len(fmt) THEN <<>>
    ELSE IF fmt[i] # "%" THEN <<fmt[i]>> \o TimePieces(self, fmt, i + 1)
    ELSE IF i = Len(fmt) THEN <<>>
    ELSE Time_as_formated_string(self, <<"%", fmt[i + 1]>>)
             \o TimePieces(self, fmt, i + 2)

\* What the directives that do not depend on the value render.
FixedPieces(fmt, ret) ==
    /\ fmt = <<"%", "%">> => ret = <<"%">>
    /\ fmt = <<"%", "x">> => ret = <<"x">>
    /\ fmt = <<"%">> => ret = <<>>
    /\ fmt = <<"%", "n">> => ret = <<"\n">>
    /\ fmt = <<"%", "t">> => ret = <<"\t">>

\* C18 (FnSpec): in Date and Time as_formated_string, characters outside a
\* directive are copied unchanged and in order, '%' consumes exactly one
\* following character, "%%" gives '%', '%' before an unrecognized character
\* gives that character alone, a trailing '%' gives nothing, %n gives a
\* newline and %t a tab.
C18_Scanning ==
    (last.op = "as_formated_string" /\ ~panicked) =>
        /\ FixedPieces(last.arg, last.ret)
        /\ last.pre = date => last.ret = DatePieces(date, last.arg, 1)
        /\ last.pre = time => last.ret = TimePieces(time, last.arg, 1)
        /\ last.arg = <<"d", "%", "%", "Y">> => last.ret = <<"d", "%", "Y">>
        /\ last.arg = <<"H", "%", "%", "M">> => last.ret = <<"H", "%", "M">>

\* C18 witness: a pattern with two directives, a literal between them and a
\* trailing '%' was rendered as five characters.
C18_Witness ==
    /\ last.op = "as_formated_string"
    /\ last.arg = <<"%", "d", ".", "%", "m", "%">>
    /\ last.pre = MkDate(22, 6, 2024)
    /\ last.ret = <<"2", "2", ".", "0", "6">>

\* YYYY-MM-DD with the year in 4 digits and month and day in 2.
IsoDate(dt) ==
    PaddedDigits(dt.y, 4) \o <<"-">> \o PaddedDigits(dt.m, 2)
        \o <<"-">> \o PaddedDigits(dt.d, 2)

\* C19 (FnSpec): for a valid Date with year in 0..9999, as_string() and
\* as_formated_string("%F") both return the 10 characters YYYY-MM-DD, zero
\* padded; Date::from(22, 6, 2024) renders as "2024-06-22".
C19_IsoDate ==
    (/\ CivilValid(date) /\ date.y \in 0..9999
     /\ (last.op = "as_string" \/ Rendered("F"))
     /\ last.pre = date) =>
        /\ ~panicked
        /\ Len(last.ret) = 10
        /\ last.ret = IsoDate(date)
        /\ date = MkDate(22, 6, 2024) =>
               last.ret = <<"2", "0", "2", "4", "-", "0", "6", "-", "2", "2">>

\* C19 witness: as_string() has rendered a year below 1000 in four digits.
C19_Witness ==
    /\ last.op = "as_string"
    /\ last.pre = MkDate(29, 2, 0)
    /\ last.ret = <<"0", "0", "0", "0", "-", "0", "2", "-", "2", "9">>

\* A single directive %cn was rendered for the held Time.
TimeRendered(cn) ==
    /\ last.op = "as_formated_string"
    /\ last.pre = time
    /\ last.arg = <<"%", cn>>

\* HH:MM:SS with every field in 2 digits.
IsoClock(t) ==
    PaddedDigits(t.h, 2) \o <<":">> \o PaddedDigits(t.m, 2)
        \o <<":">> \o PaddedDigits(t.s, 2)

\* C20 (FnSpec): for a valid Time with hour in 0..99, as_string() and
\* as_formated_string("%T") both return HH:MM:SS with each field zero-padded
\* to 2 digits, %R returns its HH:MM prefix and %H, %M, %S its three fields;
\* Time::from(18, 30, 0) renders as "18:30:00".
C20_IsoClock ==
    (TimeValid(time) /\ time.h \in 0..99 /\ ~panicked) =>
        /\ ((last.op = "as_string" /\ last.pre = time) \/ TimeRendered("T")) =>
               /\ last.ret = IsoClock(time)
               /\ Len(last.ret) = 8
               /\ time = MkTime(18, 30, 0) =>
                      last.ret = <<"1", "8", ":", "3", "0", ":", "0", "0">>
        /\ TimeRendered("R") => last.ret = SubSeq(IsoClock(time), 1, 5)
        /\ TimeRendered("H") => last.ret = SubSeq(IsoClock(time), 1, 2)
        /\ TimeRendered("M") => last.ret = SubSeq(IsoClock(time), 4, 5)
        /\ TimeRendered("S") => last.ret = SubSeq(IsoClock(time), 7, 8)

\* C20 witness: "%T" has rendered 18:30:00.
C20_Witness ==
    /\ TimeRendered("T")
    /\ time = MkTime(18, 30, 0)
    /\ last.ret = <<"1", "8", ":", "3", "0", ":", "0", "0">>

\* The hour of the 12-hour clock.
Hour12(h) == IF h = 0 THEN 12 ELSE IF h > 12 THEN h - 12 ELSE h

\* The number that one or two characters, space- or zero-padded, show.
RECURSIVE ShownNumber(_)
ShownNumber(chars) ==
    IF chars = <<>> THEN 0
    ELSE LET c == chars[Len(chars)]
             digit == IF c = " " THEN 0
                      ELSE CHOOSE k \in 0..9 : DIGITS[k + 1] = c
         IN  10 * ShownNumber(SubSeq(chars, 1, Len(chars) - 1)) + digit

\* C21 (FnSpec): for a valid Time with hour h in 0..23, %I renders a 2-digit
\* hour in 01..12 (0 gives 12, h > 12 gives h - 12, otherwise h), %r shows
\* the same hour, %p renders "a.m." for h < 12 and "p.m." for h >= 12, and
\* %r ends in "AM" for h < 12 and "PM" for h >= 12.
C21_TwelveHour ==
    (TimeValid(time) /\ time.h \in 0..23) =>
        /\ TimeRendered("I") =>
               /\ last.ret = PaddedDigits(Hour12(time.h), 2)
               /\ ShownNumber(last.ret) \in 1..12
        /\ TimeRendered("r") =>
               /\ ShownNumber(SubSeq(last.ret, 1, 2)) = Hour12(time.h)
               /\ last.ret[3] = ":"
               /\ SubSeq(last.ret, Len(last.ret) - 1, Len(last.ret))
                      = IF time.h < 12 THEN <<"A", "M">> ELSE <<"P", "M">>
        /\ TimeRendered("p") =>
               last.ret = IF time.h < 12 THEN <<"a", ".", "m", ".">>
                          ELSE <<"p", ".", "m", ".">>

\* C21 witness: midnight was rendered by %r with hour 12 and AM.
C21_Witness ==
    /\ TimeRendered("r")
    /\ time = MkTime(0, 30, 0)
    /\ last.ret = <<"1", "2", ":", "3", "0", ":", "0", "0", " ", "A", "M">>

\* The months of a Date counted from January of year 0.
MonthIndex(dt) == 12 * dt.y + (dt.m - 1)

\* C22 (DateSpec): for a valid Date (d, m, y) and n >= 0, add_months(n)
\* returns a Date with the same day, a month in 1..12 and a month index
\* 12*year + (month - 1) exactly n larger, also when m + n is a multiple
\* of 12.
C22_AddMonths ==
    (last.op = "add_months" /\ CivilValid(last.pre)) =>
        /\ date.d = last.pre.d
        /\ date.m \in 1..12
        /\ MonthIndex(date) = MonthIndex(last.pre) + last.arg

\* C23 (DateSpec): for a valid Date (d, m, y) and n >= 0, sub_months(n)
\* returns a Date with the same day, a month in 1..12 and a month index
\* exactly n smaller; consequently sub_months(n) undoes add_months(n) on year
\* and month.
C23_SubMonths ==
    /\ (last.op = "sub_months" /\ CivilValid(last.pre)) =>
           /\ date.d = last.pre.d
           /\ date.m \in 1..12
           /\ MonthIndex(date) = MonthIndex(last.pre) - last.arg
    /\ (last.op = "add_months" /\ CivilValid(last.pre)) =>
           LET back == sub_months(date, last.arg)
           IN  back.y = last.pre.y /\ back.m = last.pre.m

\* C24 (TimeSpec): for valid Times a, b with non-negative hours,
\* a.sub_time(&b).add_time(&b) = a, also when a is earlier than b and the
\* intermediate result is negative.
C24_SubThenAdd ==
    (/\ last.op = "sub_time"
     /\ TimeValid(last.pre) /\ last.pre.h >= 0
     /\ TimeValid(last.arg) /\ last.arg.h >= 0) =>
        /\ ~panicked
        /\ add_time(time, last.arg, build) = Ok(last.pre)

\* a is before b in the calendar: the fields compared as year, month, day.
Earlier(a, b) ==
    \/ a.y < b.y
    \/ (a.y = b.y /\ a.m < b.m)
    \/ (a.y = b.y /\ a.m = b.m /\ a.d < b.d)

\* C25 (FnSpec): get_days_from_date maps 1970-01-01 to 0 and, for every valid
\* civil date, negative years and year 0 included, maps the next calendar day
\* to a day count exactly 1 larger (across month ends, 28/29 February,
\* 31 December and era boundaries), so it increases with the calendar.
C25_DayCount ==
    (last.op = "day_count" /\ CivilValid(date)) =>
        /\ (date = MkDate(1, 1, 1970) => last.ret = 0)
        /\ get_days_from_date(NextDay(date)) = last.ret + 1
        /\ \A o \in OperandDates :
               (CivilValid(o) /\ Earlier(o, date)) => get_days_from_date(o) < last.ret

\* C25 witness: the day count of 29 February 2000, the last day of a 400-year
\* era, was taken.
C25_Witness ==
    /\ last.op = "day_count"
    /\ date = MkDate(29, 2, 2000)
    /\ last.ret = 11016

\* C26 (FnSpec): for a valid Date D, get_day_of_year() lies in 1..365
\* (1..366 in a leap year) and equals
\* day_count(D) - day_count(1 January of D's year) + 1.
C26_DayOfYear ==
    (last.op = "get_day_of_year" /\ CivilValid(date)) =>
        /\ ~panicked
        /\ last.ret \in 1..(IF LeapRule(date.y) THEN 366 ELSE 365)
        /\ last.ret = OrdinalDay(date)

\* C26 witness: the last day of a leap year is day 366.
C26_Witness ==
    /\ last.op = "get_day_of_year"
    /\ date = MkDate(31, 12, 2024)
    /\ last.ret = 366

\* C27 (FnSpec): add_years(n) and sub_years(n) return, for every input Date
\* (the sentinel included) and every n, the same day and month with the year
\* y + n and y - n, with no validation.
C27_YearsOnly ==
    last.op \in {"add_years", "sub_years"} =>
        /\ ~panicked
        /\ last.ret.d = last.pre.d
        /\ last.ret.m = last.pre.m
        /\ WInt(last.ret.y) = IF last.op = "add_years"
                              THEN WAdd(WInt(last.pre.y), last.arg)
                              ELSE WSub(WInt(last.pre.y), last.arg)

\* C28 (DateSpec): for every valid Date D and every offset n >= 0, add_days(n)
\* and sub_days(n) return a valid civil date and never the sentinel (0,0,0).
C28_DaysStayValid ==
    (last.op \in {"add_days", "sub_days"} /\ CivilValid(last.pre)) =>
        /\ date # InvalidDate
        /\ CivilValid(date)

\* C29 (TimeSpec): the invalid-Time sentinel (0,-1,-1) is unambiguous: no
\* from_seconds call and no arithmetic operation applied to valid Times
\* returns a value equal to the sentinel.
C29_SentinelUnambiguous ==
    /\ last.op = "from_seconds" => time # InvalidTime
    /\ (/\ last.op \in {"add_hours", "sub_hours", "add_minutes", "sub_minutes",
                        "add_seconds", "sub_seconds"}
        /\ TimeValid(last.pre)
        /\ ~panicked) => time # InvalidTime
    /\ (/\ last.op \in {"add_time", "sub_time"}
        /\ TimeValid(last.pre)
        /\ TimeValid(last.arg)
        /\ ~panicked) => time # InvalidTime

\* C30 (FnSpec): for all valid Dates a and b the derived comparison agrees
\* with chronological order: a < b iff day_count(a) < day_count(b), and
\* a == b iff a.diff_in_days(&b) = 0.
C30_DerivedOrder ==
    (last.op = "cmp" /\ CivilValid(date) /\ CivilValid(last.arg)) =>
        /\ last.ret.lt <=> (get_days_from_date(date) < get_days_from_date(last.arg))
        /\ last.ret.eq <=> (diff_in_days(date, last.arg) = 0)

\* C30 witness: 31 January compares as earlier than 1 February of that year,
\* and 29 February 2024 compares as equal to itself.
C30_Witness ==
    /\ last.op = "cmp"
    /\ \/ date = MkDate(31, 1, 2024) /\ last.arg = MkDate(1, 2, 2024) /\ last.ret.lt
       \/ date = MkDate(29, 2, 2024) /\ last.arg = MkDate(29, 2, 2024) /\ last.ret.eq

====
